---- MODULE Spec2Model ----
(***************************************************************************)
(* DevilAgent (src/src/main.py, src/src/server.py): the chat turn of the    *)
(* agent, its retrieve-validate loop, the concurrent search fan-out and the *)
(* session operations set_mode, set_search and clear.                       *)
(*                                                                          *)
(* A chat turn is an async generator.  It is suspended at every yield and   *)
(* at every await; one action of the model runs the generator from one      *)
(* suspension point to the next.  The server (server.py) serves /api/mode,  *)
(* /api/search and /api/clear on the one shared agent while a turn is       *)
(* suspended, so the session operations are enabled in every state.         *)
(*                                                                          *)
(* Text is modelled as a sequence of tokens: "" is <<>>, concatenation is   *)
(* \o.  A search result text is the sequence of its lines.                  *)
(***************************************************************************)
EXTENDS Integers, Sequences, FiniteSets, TLC

VARIABLES devil_mode, use_web_search, active_skill, history, skills_metadata, turns,
          devil_turn_seen

vars == <<devil_mode, use_web_search, active_skill, history, skills_metadata, turns,
          devil_turn_seen>>

(***************************************************************************)
(* Bounds of the model                                                      *)
(***************************************************************************)
MaxQueries == 2      \* longest query list a structured call returns
MaxChunks == 2       \* most chunks one model stream delivers
MaxDescription == 1100   \* longest description of a skill file

(***************************************************************************)
(* Program constants                                                        *)
(***************************************************************************)
\* a loop bound one too large
max_iterations_four == 3 + 1

max_iterations == 3
MaxRefs == 5

Turns == {1, 2}      \* generator objects; Spec runs turn 1 only

(***************************************************************************)
(* Inputs                                                                   *)
(***************************************************************************)
Inputs == { <<"DEF ", "paper">>, <<"hello">> }

LoopInputs == { <<"hello">> }

\* the messages of the turns that exercise the skill selection: an empty message,
\* one with no keyword, one with a code and a document keyword, one with a document
\* keyword in capitals
SkillInputs == { <<>>, <<"hello">>, <<"DEF ", "paper">>, <<"Research">> }

QueryStrings == {"q1", "q2"}

RECURSIVE SeqsUpTo(_, _)
SeqsUpTo(S, n) ==
    IF n = 0 THEN { <<>> }
    ELSE LET shorter == SeqsUpTo(S, n - 1)
         IN shorter \cup { Append(s, x) : s \in { z \in shorter : Len(z) = n - 1 }, x \in S }

QueryLists == SeqsUpTo(QueryStrings, MaxQueries)

\* the query lists and search outcomes of the specification with session calls
SessionQueryLists == { <<>>, <<"q1">> }

\* a list of four queries: the schemas type queries and new_queries as list[str]
\* and nothing checks the length of the list the model returns
LongQueries == <<"q1", "q2", "q3", "q4">>

\* what tool.text returns: a list of hits (each hit here is its href), or it throws
Href1 == <<"http", "a">>
Href2 == <<"http", "b">>
HrefBad == <<"ftp", "c">>
HitLists == { <<>>, <<HrefBad, Href2>> }
SearchOutcomes == { [throws |-> TRUE, hits |-> <<>>] } \cup { [throws |-> FALSE, hits |-> h] : h \in HitLists }

SessionOutcomes == { [throws |-> TRUE, hits |-> <<>>], [throws |-> FALSE, hits |-> <<Href1>>] }

ChunkContents == { <<>>, <<"a">> }

\* the chunks of the turns that exercise the stream loop: empty ones and two texts
StreamContents == { <<>>, <<"a">>, <<"b">> }

\* what the exception of a failing model stream says
Reasons == { "timeout", "refused" }

(***************************************************************************)
(* Skills                                                                   *)
(***************************************************************************)
None == [name |-> "None", description |-> <<>>, content |-> "None"]

Skill(n) == [name |-> n, description |-> <<n>>, content |-> n]

MAX_DESCRIPTION_LENGTH == 1024

\* the j-th character of the description of a skill file; the text has dots of its own
Char(j) == IF j % 7 = 0 THEN "." ELSE IF j % 2 = 0 THEN "b" ELSE "a"

\* the frontmatter of a SKILL.md whose description is L characters long
SkillFile(n, L) == [name |-> n, description |-> [j \in 1..L |-> Char(j)]]

DescriptionLengths == 0..MaxDescription

\* a truncation that also cuts a description of exactly the maximal length
Truncated_from_limit(desc) ==
    IF Len(desc) >= MAX_DESCRIPTION_LENGTH
    THEN SubSeq(desc, 1, MAX_DESCRIPTION_LENGTH) \o <<".", ".", ".">>
    ELSE desc

\* lines 101-103
Truncated(desc) ==
    IF Len(desc) > MAX_DESCRIPTION_LENGTH
    THEN SubSeq(desc, 1, MAX_DESCRIPTION_LENGTH) \o <<".", ".", ".">>
    ELSE desc

\* line 92: the frontmatter has a name and a description
HasNameAndDescription(fm) == fm.name # "" /\ fm.description # <<>>

\* lines 105-114: the record of a file that parses; content is the whole file
_parse_skill_metadata(fm) ==
    [name |-> fm.name, description |-> Truncated(fm.description), content |-> fm]

\* lines 117-139: the records of the files that parse, in directory order
RECURSIVE _list_skills(_)
_list_skills(files) ==
    IF files = <<>> THEN <<>>
    ELSE (IF HasNameAndDescription(Head(files))
          THEN << _parse_skill_metadata(Head(files)) >> ELSE <<>>)
         \o _list_skills(Tail(files))

SkillNames == {"code-checker", "logic-auditor", "general-reviewer"}

\* The skills directory is not part of the code.  This registry has two of the
\* names _detect_skill returns and lacks the third, so a lookup can succeed and fail.
Registries == { <<Skill("custom-skill"), Skill("code-checker"), Skill("logic-auditor")>> }

\* that registry, and one with the three names _detect_skill returns
SkillRegistries ==
    Registries \cup
    { <<Skill("general-reviewer"), Skill("logic-auditor"), Skill("code-checker")>> }

Lower(tok) ==
    CASE tok = "DEF " -> "def "
      [] tok = "Research" -> "research"
      [] OTHER -> tok

\* "fence" stands for the code-fence marker
CodeKeywords == {"def ", "class ", "import ", "function", "fence"}

DocKeywords == {"paper", "report", "proposal", "design", "analysis", "hypothesis",
                "conclusion", "thesis", "research", "study"}

ContainsAny(text, kws) == \E j \in DOMAIN text : Lower(text[j]) \in kws

\* a classification that looks for the document keywords first
_detect_skill_doc_first(text) ==
    IF ContainsAny(text, DocKeywords) THEN "logic-auditor"
    ELSE IF ContainsAny(text, CodeKeywords) THEN "code-checker"
    ELSE "general-reviewer"

_detect_skill(text) ==
    IF ContainsAny(text, CodeKeywords) THEN "code-checker"
    ELSE IF ContainsAny(text, DocKeywords) THEN "logic-auditor"
    ELSE "general-reviewer"

RECURSIVE FindSkill(_, _)
FindSkill(reg, name) ==
    IF reg = <<>> THEN None
    ELSE IF Head(reg).name = name THEN Head(reg)
    ELSE FindSkill(Tail(reg), name)

_load_skill_by_name(name) == FindSkill(skills_metadata, name)

\* a prompt build that classifies the input of every devil-mode turn
Classifies_every_turn(user_input) == devil_mode /\ user_input # <<>>

\* lines 272-276: whether _build_prompt calls _detect_skill
Classifies(user_input) == devil_mode /\ user_input # <<>> /\ active_skill = None

\* a prompt build that selects a skill in normal mode too
SkillAfterPrompt_any_mode(user_input) ==
    IF user_input # <<>> /\ active_skill = None
    THEN _load_skill_by_name(_detect_skill(user_input))
    ELSE active_skill

\* _build_prompt: the skill that is active after the call
SkillAfterPrompt(user_input) ==
    IF Classifies(user_input)
    THEN _load_skill_by_name(_detect_skill(user_input))
    ELSE active_skill

\* _build_prompt: the prompt text it returns
_build_prompt(user_input) ==
    IF ~devil_mode THEN [template |-> "NORMAL_PROMPT", skill_content |-> "-"]
    ELSE [template |-> "DEVIL_PROMPT",
          skill_content |-> IF SkillAfterPrompt(user_input) # None
                            THEN SkillAfterPrompt(user_input).content
                            ELSE "No skill loaded"]

(***************************************************************************)
(* Search                                                                   *)
(***************************************************************************)
FailedLine == [kind |-> "failed", text |-> <<>>]

NoResultsLine(q) == [kind |-> "noresults", text |-> <<q>>]

RECURSIVE HitLines(_)
HitLines(hits) ==
    IF hits = <<>> THEN <<>>
    ELSE << [kind |-> "title", text |-> <<>>],
            [kind |-> "source", text |-> Head(hits)] >> \o HitLines(Tail(hits))

\* _search_web: the text one search returns, whatever the adapter did
_search_web(query, outcome) ==
    IF outcome.throws THEN << FailedLine >>
    ELSE IF outcome.hits = <<>> THEN << NoResultsLine(query) >>
    ELSE HitLines(outcome.hits)

\* a dict is the sequence of its items [q, r] in insertion order
DictKeys(d) == { d[j].q : j \in DOMAIN d }

DictGet(d, k) == d[CHOOSE j \in DOMAIN d : d[j].q = k].r

\* a list of pairs in place of a dict: every item is appended
DictSet_append(d, k, v) == Append(d, [q |-> k, r |-> v])

\* d[k] = v: an existing key keeps its position and takes the new value
DictSet(d, k, v) ==
    IF k \in DictKeys(d)
    THEN [j \in DOMAIN d |-> IF d[j].q = k THEN [q |-> k, r |-> v] ELSE d[j]]
    ELSE Append(d, [q |-> k, r |-> v])

\* dict(zip(keys, values))
RECURSIVE DictZip(_, _, _)
DictZip(d, keys, values) ==
    IF keys = <<>> \/ values = <<>> THEN d
    ELSE DictZip(DictSet(d, Head(keys), Head(values)), Tail(keys), Tail(values))

\* d.update(e)
RECURSIVE DictUpdate(_, _)
DictUpdate(d, e) ==
    IF e = <<>> THEN d
    ELSE DictUpdate(DictSet(d, Head(e).q, Head(e).r), Tail(e))

\* a merge that keeps the value of a key the map already has
RECURSIVE update_keeps_existing(_, _)
update_keeps_existing(all_results, results) ==
    IF results = <<>> THEN all_results
    ELSE update_keeps_existing(IF Head(results).q \in DictKeys(all_results)
                               THEN all_results
                               ELSE Append(all_results, Head(results)),
                               Tail(results))

\* line 366: all_results.update(results)
update(all_results, results) == DictUpdate(all_results, results)

\* a gather that gives up the whole batch when one search failed
multi_search_abort(queries, results) ==
    IF \E k \in DOMAIN results : results[k] = << FailedLine >> THEN <<>>
    ELSE DictZip(<<>>, queries, results)

\* multi_search, once every _search_web of the gather has returned
multi_search(queries, results) == DictZip(<<>>, queries, results)

(***************************************************************************)
(* Structured model calls                                                   *)
(***************************************************************************)
\* what structured.ainvoke does in _extract_search_queries
ExtractResults(QL) ==
    { [kind |-> "throw", queries |-> <<>>], [kind |-> "null", queries |-> <<>>] }
    \cup { [kind |-> "parsed", queries |-> ql] : ql \in QL }

\* an extraction that falls back on a query of its own when the call failed
_extract_search_queries_fallback(res) == IF res.kind = "parsed" THEN res.queries ELSE << "q1" >>

\* _extract_search_queries: the list it returns
_extract_search_queries(res) == IF res.kind = "parsed" THEN res.queries ELSE <<>>

\* what structured.ainvoke does in _validate_search
ValidateResults(QL) ==
    { [kind |-> "throw", is_satisfied |-> FALSE, new_queries |-> <<>>],
      [kind |-> "null", is_satisfied |-> FALSE, new_queries |-> <<>>] }
    \cup { [kind |-> "parsed", is_satisfied |-> b, new_queries |-> ql] : b \in BOOLEAN, ql \in QL }

\* _validate_search: None on a throw and on a null parsed result (result.is_satisfied
\* of None raises inside the try), else the verdict
_validate_search(res) ==
    IF res.kind = "parsed"
    THEN [none |-> FALSE, is_satisfied |-> res.is_satisfied, new_queries |-> res.new_queries]
    ELSE [none |-> TRUE, is_satisfied |-> FALSE, new_queries |-> <<>>]

(***************************************************************************)
(* Output events and messages                                               *)
(***************************************************************************)
Stage(tag) == [type |-> "stage", tag |-> tag, n |-> 0, text |-> <<>>]

Content(tag, n, text) == [type |-> "content", tag |-> tag, n |-> n, text |-> text]

HumanMessage(content) == [role |-> "Human", content |-> <<content>>]

AIMessage(content) == [role |-> "AI", content |-> <<content>>]

SystemMessage(prompt, context) == [role |-> "System", content |-> <<prompt, context>>]

Call(name, iter, res) == [call |-> name, iter |-> iter, res |-> res]

(***************************************************************************)
(* The generator object of one chat turn                                    *)
(***************************************************************************)
Pending == [fin |-> FALSE, threw |-> FALSE, r |-> <<>>, rank |-> 0]

IdleTurn ==
    [pc |-> "idle", user_input |-> <<>>, queries |-> <<>>, i |-> 0, done |-> <<>>,
     results |-> <<>>, all_results |-> <<>>, search_context |-> <<>>,
     search_sources |-> <<>>, messages |-> <<>>, full |-> <<>>, nchunks |-> 0,
     out |-> <<>>, log |-> <<>>,
     search_at_start |-> FALSE, prev_len |-> 0, toggled |-> FALSE, cleared |-> FALSE,
     raised |-> FALSE, reason |-> <<>>, history_at_end |-> <<>>, interfered |-> FALSE,
     devil_at_prompt |-> FALSE, first_devil |-> FALSE, skill_before |-> None,
     detected |-> "-", received |-> <<>>, escaped |-> FALSE]

\* Bookkeeping fields of a turn, read by the properties only:
\*   log              the adapter calls of the turn, in order
\*   done[k].threw    whether the k-th search of the gather threw
\*   done[k].rank     the place of the k-th search in the order of completion of the
\*                    gather, until the validation of the iteration has returned
\*   search_at_start  use_web_search as read on line 351
\*   prev_len         the length of history when the turn began, before the reset
\*   toggled          set_search changed use_web_search while the turn was in flight
\*   cleared          clear ran while the turn's model stream was in progress
\*   raised, reason   the model stream raised, and the text of its exception
\*   history_at_end   history when the turn ended
\*   interfered       another turn reset or appended to history while the turn was in flight
\*   devil_at_prompt  devil_mode as _build_prompt read it
\*   first_devil      the turn is the first to build a devil-mode prompt since the
\*                    construction or the last set_mode or clear
\*   skill_before     active_skill when _build_prompt was entered
\*   detected         the name _detect_skill returned, "-" when it was not called
\*   received         the chunks the model stream delivered, in order
\*   escaped          the generator ended with an exception; chat() catches every
\*                    Exception of its awaits, so no step of the turn sets it

InFlight(t) == turns[t].pc \notin {"idle", "done"}

\* turns after a step of turn t that wrote history: t becomes r
HistoryWrittenBy(t, r) ==
    [u \in Turns |->
        IF u = t THEN r
        ELSE IF InFlight(u) THEN [turns[u] EXCEPT !.interfered = TRUE]
        ELSE turns[u]]

\* the bookkeeping of a turn entering _build_prompt
PromptBuilt(r) ==
    [r EXCEPT !.devil_at_prompt = devil_mode,
              !.first_devil = devil_mode /\ ~devil_turn_seen,
              !.skill_before = active_skill,
              !.detected = IF Classifies(r.user_input)
                           THEN _detect_skill(r.user_input) ELSE "-"]

\* lines 386-391: the source URLs of one result text
RECURSIVE LineSources(_)
LineSources(lines) ==
    IF lines = <<>> THEN <<>>
    ELSE LET line == Head(lines)
             url == line.text
         IN (IF line.kind = "source" /\ url # <<>> /\ Head(url) = "http"
             THEN <<url>> ELSE <<>>) \o LineSources(Tail(lines))

RECURSIVE ExtractSources(_)
ExtractSources(d) ==
    IF d = <<>> THEN <<>>
    ELSE LineSources(Head(d).r) \o ExtractSources(Tail(d))

\* lines 383-399: after the loop
AfterLoop(r) ==
    IF r.all_results # <<>>
    THEN [r EXCEPT !.search_sources = ExtractSources(r.all_results),
                   !.search_context = << r.all_results >>,
                   !.out = Append(r.out, Stage("generating")),
                   !.pc = "prompt"]
    ELSE [r EXCEPT !.pc = "prompt"]

\* lines 359-365: the head of iteration r.i of the for loop, up to the gather
EnterIteration(r) ==
    IF r.i >= max_iterations THEN AfterLoop(r)
    ELSE IF r.queries = <<>> THEN AfterLoop(r)
    ELSE [r EXCEPT !.out = Append(r.out, Stage("searching")),
                   !.done = [j \in 1..Len(r.queries) |-> Pending],
                   !.log = Append(r.log, Call("search", r.i + 1, "-")),
                   !.pc = "search"]

\* the loop with the satisfied verdict not ending it
AfterValidation_unsatisfiable(r, validation) ==
    IF validation.none THEN AfterLoop(r)
    ELSE LET queries == validation.new_queries
             refined == IF queries # <<>> THEN Append(r.out, Stage("refining")) ELSE r.out
         IN EnterIteration([r EXCEPT !.queries = queries, !.out = refined, !.i = r.i + 1])

\* the loop searching the same queries again when the validation call failed
AfterValidation_retry(r, validation) ==
    IF validation.is_satisfied THEN AfterLoop(r)
    ELSE LET queries == IF validation.none THEN r.queries ELSE validation.new_queries
             refined == IF queries # <<>> THEN Append(r.out, Stage("refining")) ELSE r.out
         IN EnterIteration([r EXCEPT !.queries = queries, !.out = refined, !.i = r.i + 1])

\* a loop that waits for another verdict when the validation call failed
AfterValidation_blocks(r, validation) ==
    IF validation.none THEN [r EXCEPT !.pc = "blocked"]
    ELSE IF validation.is_satisfied THEN AfterLoop(r)
    ELSE LET queries == validation.new_queries
             refined == IF queries # <<>> THEN Append(r.out, Stage("refining")) ELSE r.out
         IN EnterIteration([r EXCEPT !.queries = queries, !.out = refined, !.i = r.i + 1])

\* lines 372-379: what the loop does with the verdict
AfterValidation(r, validation) ==
    IF validation.none \/ validation.is_satisfied THEN AfterLoop(r)
    ELSE LET queries == validation.new_queries
             refined == IF queries # <<>> THEN Append(r.out, Stage("refining")) ELSE r.out
         IN EnterIteration([r EXCEPT !.queries = queries, !.out = refined, !.i = r.i + 1])

(***************************************************************************)
(* Actions                                                                  *)
(***************************************************************************)
\* a turn that keeps the messages of the turns before it
FreshHistory_keep(h) == h

\* line 348: history as the turn resets it
FreshHistory(h) == <<>>

\* lines 343-352 and 400-401
ChatStart(t, user_input) ==
    /\ turns[t].pc \in {"idle", "done"}
    /\ history' = FreshHistory(history)
    /\ turns' = HistoryWrittenBy(t,
          IF use_web_search
          THEN [IdleTurn EXCEPT !.user_input = user_input, !.search_at_start = TRUE,
                                !.prev_len = Len(history),
                                !.out = << Stage("extracting") >>, !.pc = "extract"]
          ELSE [IdleTurn EXCEPT !.user_input = user_input,
                                !.prev_len = Len(history),
                                !.out = << Stage("offline") >>, !.pc = "prompt"])
    /\ UNCHANGED <<devil_mode, use_web_search, active_skill, skills_metadata, devil_turn_seen>>

\* lines 354-358, then the loop head
Extract(t, res) ==
    /\ turns[t].pc = "extract"
    /\ turns' = [turns EXCEPT ![t] =
          EnterIteration([@ EXCEPT !.queries = _extract_search_queries(res), !.i = 0,
                                   !.log = Append(@, Call("extract", 0,
                                       IF res.kind # "parsed" THEN res.kind
                                       ELSE IF res.queries = <<>> THEN "empty" ELSE "queries"))])]
    /\ UNCHANGED <<devil_mode, use_web_search, active_skill, history, skills_metadata, devil_turn_seen>>

\* one _search_web of the gather returns
SearchReturn(t, k, outcome) ==
    /\ turns[t].pc = "search"
    /\ k \in DOMAIN turns[t].done
    /\ ~turns[t].done[k].fin
    /\ turns' = [turns EXCEPT ![t].done[k] =
          [fin |-> TRUE, threw |-> outcome.throws,
           r |-> _search_web(turns[t].queries[k], outcome),
           rank |-> 1 + Cardinality({ j \in DOMAIN turns[t].done : turns[t].done[j].fin })]]
    /\ UNCHANGED <<devil_mode, use_web_search, active_skill, history, skills_metadata, devil_turn_seen>>

\* a gather that returns the results in the order in which the searches completed
gather_as_completed(done) ==
    [j \in DOMAIN done |-> done[CHOOSE k \in DOMAIN done : done[k].rank = j].r]

\* line 164: asyncio.gather returns the results in the order of its arguments
gather(done) == [k \in DOMAIN done |-> done[k].r]

\* lines 164-369: the gather returns, the results are merged
GatherReturn(t) ==
    /\ turns[t].pc = "search"
    /\ \A k \in DOMAIN turns[t].done : turns[t].done[k].fin
    /\ LET r == turns[t]
           results == multi_search(r.queries, gather(r.done))
       IN turns' = [turns EXCEPT ![t] =
             [r EXCEPT !.results = results,
                       !.all_results = update(r.all_results, results),
                       !.out = Append(r.out, Stage("found")),
                       !.pc = "validate"]]
    /\ UNCHANGED <<devil_mode, use_web_search, active_skill, history, skills_metadata, devil_turn_seen>>

\* lines 371-381
Validate(t, res) ==
    /\ turns[t].pc = "validate"
    /\ LET r == turns[t]
       IN turns' = [turns EXCEPT ![t] =
             AfterValidation(
                 [r EXCEPT !.done = [k \in DOMAIN r.done |-> [r.done[k] EXCEPT !.rank = 0]],
                           !.log = Append(r.log,
                     Call("validate", r.i + 1,
                          IF res.kind = "parsed"
                          THEN (IF res.is_satisfied THEN "sat" ELSE "unsat")
                          ELSE res.kind))],
                 _validate_search(res))]
    /\ UNCHANGED <<devil_mode, use_web_search, active_skill, history, skills_metadata, devil_turn_seen>>

\* the message list built before the user message is appended to history
StreamStart_before_append(t) ==
    /\ turns[t].pc = "prompt"
    /\ LET r == turns[t]
           h == Append(history, HumanMessage(r.user_input))
       IN /\ history' = h
          /\ active_skill' = SkillAfterPrompt(r.user_input)
          /\ devil_turn_seen' = (devil_turn_seen \/ devil_mode)
          /\ turns' = HistoryWrittenBy(t,
                [PromptBuilt(r) EXCEPT !.messages =
                              << SystemMessage(_build_prompt(r.user_input), r.search_context) >> \o history,
                          !.full = <<>>,
                          !.log = Append(r.log, Call("stream", 0, "-")),
                          !.pc = "stream"])
    /\ UNCHANGED <<devil_mode, use_web_search, skills_metadata>>

\* lines 402-406: the messages are assembled and the stream is opened
StreamStart(t) ==
    /\ turns[t].pc = "prompt"
    /\ LET r == turns[t]
           h == Append(history, HumanMessage(r.user_input))
       IN /\ history' = h
          /\ active_skill' = SkillAfterPrompt(r.user_input)
          /\ devil_turn_seen' = (devil_turn_seen \/ devil_mode)
          /\ turns' = HistoryWrittenBy(t,
                [PromptBuilt(r) EXCEPT !.messages =
                              << SystemMessage(_build_prompt(r.user_input), r.search_context) >> \o h,
                          !.full = <<>>,
                          !.log = Append(r.log, Call("stream", 0, "-")),
                          !.pc = "stream"])
    /\ UNCHANGED <<devil_mode, use_web_search, skills_metadata>>

\* a stream loop that yields the empty chunks too
StreamChunk_yields_empty(t, content) ==
    /\ turns[t].pc = "stream"
    /\ turns[t].nchunks < MaxChunks
    /\ LET r == turns[t]
       IN turns' = [turns EXCEPT ![t] =
             [r EXCEPT !.full = r.full \o content,
                       !.out = Append(r.out, Content("fragment", 0, content)),
                       !.nchunks = r.nchunks + 1,
                       !.received = Append(r.received, content)]]
    /\ UNCHANGED <<devil_mode, use_web_search, active_skill, history, skills_metadata, devil_turn_seen>>

\* lines 406-409: one chunk of the stream
StreamChunk(t, content) ==
    /\ turns[t].pc = "stream"
    /\ turns[t].nchunks < MaxChunks
    /\ LET r == turns[t]
       IN turns' = [turns EXCEPT ![t] =
             IF content # <<>>
             THEN [r EXCEPT !.full = r.full \o content,
                            !.out = Append(r.out, Content("fragment", 0, content)),
                            !.nchunks = r.nchunks + 1,
                            !.received = Append(r.received, content)]
             ELSE [r EXCEPT !.nchunks = r.nchunks + 1,
                            !.received = Append(r.received, content)]]
    /\ UNCHANGED <<devil_mode, use_web_search, active_skill, history, skills_metadata, devil_turn_seen>>

\* lines 413-416: the References block
RECURSIVE References(_, _)
References(sources, n) ==
    IF sources = <<>> \/ n > MaxRefs THEN <<>>
    ELSE << Content("ref", n, Head(sources)) >> \o References(Tail(sources), n + 1)

\* a trailer without the offline notice
Trailer_silent(search_sources) ==
    IF search_sources # <<>>
    THEN << Content("references", 0, <<>>) >> \o References(search_sources, 1)
    ELSE <<>>

\* a trailer that announces the sources with a stage event
Trailer_with_stage(search_sources) ==
    IF ~use_web_search THEN << Content("advisory", 0, <<>>) >>
    ELSE IF search_sources # <<>>
         THEN << Stage("found"), Content("references", 0, <<>>) >>
              \o References(search_sources, 1)
         ELSE <<>>

\* lines 410-416: what follows the last fragment
Trailer(search_sources) ==
    IF ~use_web_search THEN << Content("advisory", 0, <<>>) >>
    ELSE IF search_sources # <<>>
         THEN << Content("references", 0, <<>>) >> \o References(search_sources, 1)
         ELSE <<>>

\* lines 410-419: the stream is exhausted
StreamEnd(t) ==
    /\ turns[t].pc = "stream"
    /\ LET r == turns[t]
           h == Append(history, AIMessage(r.full))
       IN /\ history' = h
          /\ turns' = HistoryWrittenBy(t,
                [r EXCEPT !.out = r.out \o Trailer(r.search_sources),
                          !.history_at_end = h, !.pc = "done"])
    /\ UNCHANGED <<devil_mode, use_web_search, active_skill, skills_metadata, devil_turn_seen>>

\* a handler that lets the exception end the generator without an error fragment
StreamRaise_escapes(t, e) ==
    /\ turns[t].pc = "stream"
    /\ LET r == turns[t]
       IN turns' = [turns EXCEPT ![t] =
             [r EXCEPT !.raised = TRUE, !.reason = <<e>>, !.escaped = TRUE,
                       !.history_at_end = history, !.pc = "done"]]
    /\ UNCHANGED <<devil_mode, use_web_search, active_skill, history, skills_metadata, devil_turn_seen>>

\* a handler that stores the partial answer in history
StreamRaise_stores_partial(t, e) ==
    /\ turns[t].pc = "stream"
    /\ LET r == turns[t]
           h == Append(history, AIMessage(r.full))
       IN /\ history' = h
          /\ turns' = [turns EXCEPT ![t] =
                [r EXCEPT !.out = Append(r.out, Content("error", 0, <<e>>)),
                          !.raised = TRUE, !.reason = <<e>>,
                          !.history_at_end = h, !.pc = "done"]]
    /\ UNCHANGED <<devil_mode, use_web_search, active_skill, skills_metadata, devil_turn_seen>>

\* lines 420-422: the stream raises an exception saying e
StreamRaise(t, e) ==
    /\ turns[t].pc = "stream"
    /\ LET r == turns[t]
       IN turns' = [turns EXCEPT ![t] =
             [r EXCEPT !.out = Append(r.out, Content("error", 0, <<e>>)),
                       !.raised = TRUE, !.reason = <<e>>,
                       !.history_at_end = history, !.pc = "done"]]
    /\ UNCHANGED <<devil_mode, use_web_search, active_skill, history, skills_metadata, devil_turn_seen>>

\* a set_mode that keeps the active skill
set_mode_keeps_skill(devil) ==
    /\ devil_mode' = devil
    /\ devil_turn_seen' = FALSE
    /\ UNCHANGED <<active_skill, use_web_search, history, skills_metadata, turns>>

\* server.py 40-47: an event of the response stream
SSE(event, data) == [event |-> event, data |-> data]

\* a response stream that reports the error fragment of the turn as its error event
gen_error_event(r) ==
    [j \in DOMAIN r.out |-> SSE("content", r.out[j])]
    \o (IF r.pc # "done" THEN <<>>
        ELSE IF r.escaped \/ r.raised THEN << SSE("error", r.reason) >>
        ELSE << SSE("done", <<>>) >>)

\* server.py 40-47: the response stream of the turn so far.  Every chunk of chat()
\* is wrapped in a content event as it is yielded; when the generator is exhausted
\* the done event follows, and the error event when it ended with an exception.
gen(r) ==
    [j \in DOMAIN r.out |-> SSE("content", r.out[j])]
    \o (IF r.pc # "done" THEN <<>>
        ELSE IF r.escaped THEN << SSE("error", r.reason) >>
        ELSE << SSE("done", <<>>) >>)

\* lines 266-269
set_mode(devil) ==
    /\ devil_mode' = devil
    /\ active_skill' = None
    /\ devil_turn_seen' = FALSE
    /\ UNCHANGED <<use_web_search, history, skills_metadata, turns>>

\* lines 338-341
set_search(enabled) ==
    /\ use_web_search' = enabled
    /\ turns' = [t \in Turns |->
          IF InFlight(t) /\ enabled # use_web_search
          THEN [turns[t] EXCEPT !.toggled = TRUE] ELSE turns[t]]
    /\ UNCHANGED <<devil_mode, active_skill, history, skills_metadata, devil_turn_seen>>

\* a clear that empties history and keeps the active skill
clear_keeps_skill ==
    /\ history' = <<>>
    /\ turns' = [t \in Turns |->
          IF turns[t].pc = "stream" THEN [turns[t] EXCEPT !.cleared = TRUE] ELSE turns[t]]
    /\ devil_turn_seen' = FALSE
    /\ UNCHANGED <<devil_mode, use_web_search, active_skill, skills_metadata>>

\* lines 424-427
clear ==
    /\ history' = <<>>
    /\ active_skill' = None
    /\ turns' = [t \in Turns |->
          IF turns[t].pc = "stream" THEN [turns[t] EXCEPT !.cleared = TRUE] ELSE turns[t]]
    /\ devil_turn_seen' = FALSE
    /\ UNCHANGED <<devil_mode, use_web_search, skills_metadata>>

\* lines 210-217, the skills directory holding one of the registries of R
InitWith(R) ==
    /\ devil_mode = TRUE
    /\ use_web_search = TRUE
    /\ active_skill = None
    /\ history = <<>>
    /\ skills_metadata \in R
    /\ turns = [t \in Turns |-> IdleTurn]
    /\ devil_turn_seen = FALSE

Init == InitWith(Registries)

\* the steps of turn t, the query lists drawn from QL and the search outcomes from SO
TurnStep(t, QL, SO) ==
    \/ \E res \in ExtractResults(QL) : Extract(t, res)
    \/ \E k \in DOMAIN turns[t].done, outcome \in SO : SearchReturn(t, k, outcome)
    \/ GatherReturn(t)
    \/ \E res \in ValidateResults(QL) : Validate(t, res)
    \/ StreamStart(t)
    \/ \E content \in ChunkContents : StreamChunk(t, content)
    \/ StreamEnd(t)
    \/ \E e \in Reasons : StreamRaise(t, e)

SessionCall ==
    \/ \E devil \in BOOLEAN : set_mode(devil)
    \/ \E enabled \in BOOLEAN : set_search(enabled)
    \/ clear

\* The server with one client that waits for each response: one turn at a time,
\* the session calls arriving in any state.
Next ==
    \/ \E user_input \in Inputs : ChatStart(1, user_input)
    \/ TurnStep(1, SessionQueryLists, SessionOutcomes)
    \/ SessionCall

Spec == Init /\ [][Next]_vars

\* The retrieval loop in full: turns with web search on and no session call,
\* every query list up to MaxQueries and every search outcome.
NextLoop ==
    \/ \E user_input \in LoopInputs : ChatStart(1, user_input)
    \/ TurnStep(1, QueryLists, SearchOutcomes)

SpecLoop == Init /\ [][NextLoop]_vars

\* The server with two requests in flight on the one agent (server.py 13, 38-49):
\* the steps of the two generators interleave at their suspension points.  The
\* extraction finds no query here, so that the turns go straight to generation,
\* and each request has its own message.
OverlapInput(t) == IF t = 1 THEN <<"hello">> ELSE <<"DEF ", "paper">>

NextOverlap ==
    \E t \in Turns :
        \/ ChatStart(t, OverlapInput(t))
        \/ Extract(t, [kind |-> "parsed", queries |-> <<>>])
        \/ StreamStart(t)
        \/ StreamChunk(t, <<"a">>)
        \/ StreamEnd(t)
        \/ StreamRaise(t, "timeout")

SpecOverlap == Init /\ [][NextOverlap]_vars

\* The skill selection: one turn at a time with every message of SkillInputs, over
\* both registries, set_mode and clear arriving in any state.  The extraction finds
\* no query, so that the turns go straight to generation.
InitSkill == InitWith(SkillRegistries)

NextSkill ==
    \/ \E user_input \in SkillInputs : ChatStart(1, user_input)
    \/ Extract(1, [kind |-> "parsed", queries |-> <<>>])
    \/ StreamStart(1)
    \/ StreamChunk(1, <<"a">>)
    \/ StreamEnd(1)
    \/ StreamRaise(1, "timeout")
    \/ \E devil \in BOOLEAN : set_mode(devil)
    \/ clear

SpecSkill == InitSkill /\ [][NextSkill]_vars

\* Termination: one turn after another with web search on and no session call.
\* chat() is driven by its consumer (server.py 41, main.py 458), which asks for the
\* next event as long as the generator has one; every await of the turn is a call
\* that returns or throws, and the stream is finite (MaxChunks).  A step of the
\* turn that stays enabled is therefore taken: weak fairness on the turn's steps.
NextLive ==
    \/ \E user_input \in LoopInputs : ChatStart(1, user_input)
    \/ TurnStep(1, SessionQueryLists, SessionOutcomes)

SpecLive ==
    /\ Init /\ [][NextLive]_vars
    /\ WF_vars(TurnStep(1, SessionQueryLists, SessionOutcomes))

\* The construction of the agent, from line 216 on: skills_metadata is still the
\* empty list of line 212, and _load_skills reads a skills directory with one
\* SKILL.md whose description has any length up to MaxDescription.
InitParse == InitWith({ <<>> })

\* lines 220-222, called once, by the constructor
_load_skills(files) ==
    /\ skills_metadata = <<>>
    /\ skills_metadata' = _list_skills(files)
    /\ UNCHANGED <<devil_mode, use_web_search, active_skill, history, turns, devil_turn_seen>>

NextParse == \E L \in DescriptionLengths : _load_skills(<< SkillFile("code-checker", L) >>)

SpecParse == InitParse /\ [][NextParse]_vars

\* The stream loop: one turn at a time, with one query whose search finds a URL
\* and a satisfied verdict, or offline after a set_search call; the stream delivers
\* every sequence of up to MaxChunks chunks of StreamContents.
NextStream ==
    \/ ChatStart(1, <<"hello">>)
    \/ Extract(1, [kind |-> "parsed", queries |-> <<"q1">>])
    \/ \E k \in DOMAIN turns[1].done : SearchReturn(1, k, [throws |-> FALSE, hits |-> <<Href1>>])
    \/ GatherReturn(1)
    \/ Validate(1, [kind |-> "parsed", is_satisfied |-> TRUE, new_queries |-> <<>>])
    \/ StreamStart(1)
    \/ \E content \in StreamContents : StreamChunk(1, content)
    \/ StreamEnd(1)
    \/ StreamRaise(1, "timeout")
    \/ \E enabled \in BOOLEAN : set_search(enabled)

SpecStream == Init /\ [][NextStream]_vars

\* The retrieval loop when the model returns more queries than it is asked for:
\* the extraction and every unsatisfied verdict give the four queries of LongQueries.
NextLong ==
    \/ ChatStart(1, <<"hello">>)
    \/ Extract(1, [kind |-> "parsed", queries |-> LongQueries])
    \/ \E k \in DOMAIN turns[1].done : SearchReturn(1, k, [throws |-> FALSE, hits |-> <<Href1>>])
    \/ GatherReturn(1)
    \/ \E b \in BOOLEAN :
          Validate(1, [kind |-> "parsed", is_satisfied |-> b, new_queries |-> LongQueries])
    \/ StreamStart(1)
    \/ StreamChunk(1, <<"a">>)
    \/ StreamEnd(1)
    \/ StreamRaise(1, "timeout")

SpecLong == Init /\ [][NextLong]_vars

TypeOK ==
    /\ devil_mode \in BOOLEAN
    /\ use_web_search \in BOOLEAN
    /\ active_skill \in {None} \cup { Skill(n) : n \in SkillNames \cup {"custom-skill"} }
    /\ skills_metadata \in SkillRegistries
    /\ \A t \in Turns : turns[t].pc \in {"idle", "extract", "search", "validate", "prompt", "stream", "done"}

(***************************************************************************)
(* Properties                                                               *)
(***************************************************************************)
CallsOf(r, name) == { j \in DOMAIN r.log : r.log[j].call = name }

ValidatedAs(r, iter, res) ==
    \E j \in DOMAIN r.log :
        r.log[j].call = "validate" /\ r.log[j].iter = iter /\ r.log[j].res = res

\* the turn has left the retrieval loop for generation, with the accumulated results
\* as the context of the system message
GeneratesWith(r, context) ==
    /\ r.pc \in {"prompt", "stream", "done"}
    /\ r.search_context = context
    /\ r.pc # "prompt" =>
          /\ r.log[Len(r.log)].call = "stream"
          /\ r.messages[1].content[2] = context

\* C1: a turn dispatches at most 3 searches and makes at most 3 validation calls;
\* when the third validation is unsatisfied too, the turn goes on to generation
\* with the results accumulated so far.
C1_IterationCap ==
    \A t \in Turns :
        LET r == turns[t]
        IN /\ Cardinality(CallsOf(r, "search")) <= 3
           /\ Cardinality(CallsOf(r, "validate")) <= 3
           /\ ValidatedAs(r, 3, "unsat") =>
                 /\ r.all_results # <<>>
                 /\ GeneratesWith(r, << r.all_results >>)

\* three unsatisfied verdicts, the last with new queries, and the stream was opened
C1_Witness ==
    \E t \in Turns :
        LET r == turns[t]
        IN /\ ValidatedAs(r, 1, "unsat") /\ ValidatedAs(r, 2, "unsat") /\ ValidatedAs(r, 3, "unsat")
           /\ r.queries # <<>>
           /\ Cardinality(CallsOf(r, "search")) = 3
           /\ r.pc = "stream"

\* C2: after a satisfied verdict the turn makes no further search or validation:
\* the next adapter call is the model stream.
C2_SatisfiedStops ==
    \A t \in Turns :
        LET r == turns[t]
        IN \A j \in DOMAIN r.log :
              (r.log[j].call = "validate" /\ r.log[j].res = "sat") =>
                 \/ j = Len(r.log) /\ r.pc = "prompt"
                 \/ j + 1 = Len(r.log) /\ r.log[j + 1].call = "stream"

\* satisfied on iteration 2, and the stream was opened next
C2_Witness ==
    \E t \in Turns :
        LET r == turns[t]
        IN /\ ValidatedAs(r, 1, "unsat") /\ ValidatedAs(r, 2, "sat")
           /\ r.log[Len(r.log)].call = "stream"

FailedValidation(r, j) ==
    r.log[j].call = "validate" /\ r.log[j].res \in {"throw", "null"}

\* every entry of the iteration's results is in the accumulated map
Kept(r) ==
    \A k \in DictKeys(r.results) :
        k \in DictKeys(r.all_results) /\ DictGet(r.all_results, k) = DictGet(r.results, k)

\* C3: a validation call that throws or yields null ends the loop: no search or
\* validation follows it, the results accumulated so far are the context, and the
\* next adapter call is the model stream.
C3_ValidationFailureStops ==
    \A t \in Turns :
        LET r == turns[t]
        IN \A j \in DOMAIN r.log :
              FailedValidation(r, j) =>
                 /\ \/ j = Len(r.log) /\ r.pc = "prompt"
                    \/ j + 1 = Len(r.log) /\ r.log[j + 1].call = "stream"
                 /\ r.all_results # <<>>
                 /\ Kept(r)
                 /\ GeneratesWith(r, << r.all_results >>)

\* the validation of iteration 2 threw, and the stream was opened next
C3_Witness ==
    \E t \in Turns :
        LET r == turns[t]
        IN /\ ValidatedAs(r, 1, "unsat") /\ ValidatedAs(r, 2, "throw")
           /\ r.log[Len(r.log)].call = "stream"
           /\ Len(r.all_results) = 2

\* the k-th query of the gather has its own outcome as its value in the result map
OwnOutcome(r, k) ==
    /\ r.queries[k] \in DictKeys(r.results)
    /\ DictGet(r.results, r.queries[k]) = r.done[k].r
    /\ r.done[k].threw => DictGet(r.results, r.queries[k]) = << FailedLine >>
    /\ ~r.done[k].threw => DictGet(r.results, r.queries[k]) # << FailedLine >>

LastOccurrence(queries, k) == \A j \in DOMAIN queries : j > k => queries[j] # queries[k]

\* C4 as claimed: whatever searches of a gather fail, every query of the set has
\* an entry, a failing query's value is the failure placeholder and every other
\* query's value is its own outcome.
C4_AsClaimed ==
    \A t \in Turns :
        LET r == turns[t]
        IN (r.pc = "validate" /\ \E k \in DOMAIN r.done : r.done[k].threw) =>
              \A k \in DOMAIN r.queries : OwnOutcome(r, k)

\* C4: whatever searches of a gather fail, the batch is not aborted: every query
\* string of the set has an entry in the result map and in the accumulated map,
\* whose value is the outcome of the last query of the set with that string, the
\* failure placeholder if that search failed and its own result otherwise.
C4_PartialFailure ==
    \A t \in Turns :
        LET r == turns[t]
        IN r.pc = "validate" =>
              /\ DictKeys(r.results) = { r.queries[k] : k \in DOMAIN r.queries }
              /\ Kept(r)
              /\ \A k \in DOMAIN r.queries : LastOccurrence(r.queries, k) => OwnOutcome(r, k)

\* two distinct queries, the first failed and the second did not
C4_Witness ==
    \E t \in Turns :
        LET r == turns[t]
        IN /\ r.pc = "validate"
           /\ Len(r.queries) = 2 /\ r.queries[1] # r.queries[2]
           /\ r.done[1].threw /\ ~r.done[2].threw
           /\ Len(r.results) = 2

AllSucceeded(r) == \A k \in DOMAIN r.done : ~r.done[k].threw

\* C5 as claimed: after the first iteration of a query set of size N whose
\* searches all succeed, the result map has N entries.
C5_AsClaimed ==
    \A t \in Turns :
        LET r == turns[t]
        IN (r.pc = "validate" /\ r.i = 0 /\ AllSucceeded(r)) =>
              Len(r.all_results) = Len(r.queries)

\* C5: after the first iteration of a query set whose searches all succeed, the
\* result map has one entry for each distinct query string of the set.
C5_EntriesPerDistinctQuery ==
    \A t \in Turns :
        LET r == turns[t]
        IN (r.pc = "validate" /\ r.i = 0 /\ AllSucceeded(r)) =>
              /\ Len(r.all_results) = Cardinality({ r.queries[k] : k \in DOMAIN r.queries })
              /\ DictKeys(r.all_results) = { r.queries[k] : k \in DOMAIN r.queries }

\* the first iteration searched the same string twice, both searches succeeded
C5_Witness ==
    \E t \in Turns :
        LET r == turns[t]
        IN /\ r.pc = "validate" /\ r.i = 0 /\ AllSucceeded(r)
           /\ Len(r.queries) = 2 /\ r.queries[1] = r.queries[2]
           /\ Len(r.all_results) = 1

NoQueriesExtracted(r) ==
    /\ r.log # <<>>
    /\ r.log[1].call = "extract"
    /\ r.log[1].res \in {"throw", "null", "empty"}

\* C6: when the extraction of a search-enabled turn yields no query (it throws,
\* parses to null or returns the empty list), the turn makes no search and no
\* validation call, its search context and source list are empty, and it goes on
\* to the model stream with nothing added to the system prompt.
C6_NoQueriesNoSearch ==
    \A t \in Turns :
        LET r == turns[t]
        IN NoQueriesExtracted(r) =>
              /\ CallsOf(r, "search") = {}
              /\ CallsOf(r, "validate") = {}
              /\ r.all_results = <<>>
              /\ r.search_sources = <<>>
              /\ GeneratesWith(r, <<>>)

\* the extraction threw and the stream was opened
C6_Witness ==
    \E t \in Turns :
        LET r == turns[t]
        IN /\ r.search_at_start
           /\ NoQueriesExtracted(r) /\ r.log[1].res = "throw"
           /\ r.pc = "stream"
           /\ r.messages[1].content[2] = <<>>

EventsOf(r, tags) == { j \in DOMAIN r.out : r.out[j].tag \in tags }

NoRetrievalCalls(r) ==
    CallsOf(r, "extract") = {} /\ CallsOf(r, "search") = {} /\ CallsOf(r, "validate") = {}

\* the turn began with web search off and set_search did not change it since
Offline(r) == r.pc # "idle" /\ ~r.search_at_start /\ ~r.toggled

AdvisoryOnceAtEnd(r) ==
    /\ Cardinality(EventsOf(r, {"advisory"})) = 1
    /\ r.out[Len(r.out)].tag = "advisory"

\* C7 as claimed: every finished turn run with web search off made no extraction,
\* search or validation call and ends with the one offline advisory.
C7_AsClaimed ==
    \A t \in Turns :
        LET r == turns[t]
        IN (Offline(r) /\ r.pc = "done") => (NoRetrievalCalls(r) /\ AdvisoryOnceAtEnd(r))

\* C7: a turn run with web search off makes no extraction, search or validation
\* call and emits no advisory before its stream ends; when the stream completes
\* without raising, the turn's output ends with the one offline advisory.
C7_OfflineTurn ==
    \A t \in Turns :
        LET r == turns[t]
        IN Offline(r) =>
              /\ NoRetrievalCalls(r)
              /\ r.pc # "done" => EventsOf(r, {"advisory"}) = {}
              /\ (r.pc = "done" /\ ~r.raised) => AdvisoryOnceAtEnd(r)

\* an offline turn that streamed a fragment and completed
C7_Witness ==
    \E t \in Turns :
        LET r == turns[t]
        IN /\ Offline(r) /\ r.pc = "done" /\ ~r.raised
           /\ EventsOf(r, {"fragment"}) # {}
           /\ r.out[Len(r.out)].tag = "advisory"

\* C8: when the model stream raises, before or after fragments were emitted, the
\* generator ends normally and its output ends with the one error event, which
\* carries the reason; no advisory and no References block is in the output.  A
\* turn whose stream did not raise emits no error event.
C8_StreamError ==
    \A t \in Turns :
        LET r == turns[t]
        IN /\ r.raised =>
                 /\ r.pc = "done"
                 /\ Cardinality(EventsOf(r, {"error"})) = 1
                 /\ r.out[Len(r.out)] = Content("error", 0, r.reason)
                 /\ r.reason # <<>>
                 /\ EventsOf(r, {"advisory", "references", "ref"}) = {}
           /\ ~r.raised => EventsOf(r, {"error"}) = {}

\* the stream raised after a fragment, in a turn that had collected a source
C8_Witness ==
    \E t \in Turns :
        LET r == turns[t]
        IN /\ r.raised
           /\ r.search_sources # <<>>
           /\ EventsOf(r, {"fragment"}) # {}
           /\ r.out[Len(r.out)].tag = "error"

\* C9: the messages a turn hands to the model stream are one System message and
\* one Human message with the turn's input, whatever turns and session calls
\* came before.
C9_TwoMessages ==
    \A t \in Turns :
        LET r == turns[t]
        IN r.pc \in {"stream", "done"} =>
              /\ Len(r.messages) = 2
              /\ r.messages[1].role = "System"
              /\ r.messages[2] = HumanMessage(r.user_input)

\* the stream of a turn that began with the two messages of an earlier turn in history
C9_Witness ==
    \E t \in Turns :
        LET r == turns[t]
        IN /\ r.pc = "stream"
           /\ r.prev_len = 2
           /\ Len(r.messages) = 2

UserOnly(r) == << HumanMessage(r.user_input) >>

UserAndAssistant(r) == << HumanMessage(r.user_input), AIMessage(r.full) >>

\* C10 as claimed: at the end of a turn history is the pair of the user message and
\* the assistant message, or the user message alone when the stream raised.
C10_AsClaimed ==
    \A t \in Turns :
        LET r == turns[t]
        IN r.pc = "done" =>
              r.history_at_end = (IF r.raised THEN UserOnly(r) ELSE UserAndAssistant(r))

\* C10: at the end of a turn during whose model stream clear was not called,
\* history is the pair of the user message and the assistant message, or the user
\* message alone when the stream raised; when clear was called during the stream
\* the user message is missing from it.
C10_HistoryAtEnd ==
    \A t \in Turns :
        LET r == turns[t]
        IN r.pc = "done" =>
              /\ ~r.cleared =>
                    r.history_at_end = (IF r.raised THEN UserOnly(r) ELSE UserAndAssistant(r))
              /\ r.cleared =>
                    r.history_at_end = (IF r.raised THEN <<>> ELSE << AIMessage(r.full) >>)

\* a completed turn with a non-empty answer, and one whose stream raised after a fragment
C10_Witness ==
    \E t \in Turns :
        LET r == turns[t]
        IN /\ r.pc = "done" /\ ~r.cleared /\ r.full # <<>>
           /\ \/ ~r.raised /\ Len(r.history_at_end) = 2 /\ r.prev_len = 2
              \/ r.raised /\ Len(r.history_at_end) = 1

\* C11: the turns of one agent share history.  A turn during which no other turn
\* wrote history hands [System, Human] to the model and leaves the pair in
\* history; a turn that overlaps another still hands the model a System message
\* first and its own user message last, with the other turn's messages (reachable,
\* as the witness shows) in between.
C11_SharedHistory ==
    \A t \in Turns :
        LET r == turns[t]
        IN /\ r.pc \in {"stream", "done"} =>
                 /\ Len(r.messages) >= 2
                 /\ r.messages[1].role = "System"
                 /\ r.messages[Len(r.messages)] = HumanMessage(r.user_input)
                 /\ ~r.interfered => Len(r.messages) = 2
           /\ (r.pc = "done" /\ ~r.raised /\ ~r.interfered) =>
                 r.history_at_end = UserAndAssistant(r)

\* both turns completed without error; the messages turn 1 handed to the model
\* hold the user message of turn 2, and history has four messages
C11_Witness ==
    /\ \A t \in Turns : turns[t].pc = "done" /\ ~turns[t].raised
    /\ turns[1].user_input # turns[2].user_input
    /\ \E j \in DOMAIN turns[1].messages :
          turns[1].messages[j] = HumanMessage(turns[2].user_input)
    /\ Len(history) = 4

\* the turn has built its prompt
PromptDone(r) == r.pc \in {"stream", "done"}

\* the skill text in the system message of the turn
SkillInPrompt(r) == r.messages[1].content[1].skill_content

\* a step in which turn t builds its prompt and opens the stream
BuildsPrompt(t) == turns[t].pc = "prompt" /\ turns'[t].pc = "stream"

\* C12: every set_mode call, whatever the mode before it and whether or not it
\* changes the mode, leaves active_skill None and devil_mode equal to its argument;
\* active_skill then stays None until a devil-mode turn builds its prompt.
C12_SetMode ==
    [][ /\ \A devil \in BOOLEAN :
              set_mode(devil) => (active_skill' = None /\ devil_mode' = devil)
        /\ (active_skill = None /\ active_skill' # None) =>
              (devil_mode /\ \E t \in Turns : BuildsPrompt(t)) ]_vars

\* a completed turn whose prompt carried the code-checker skill, history still
\* holding its two messages, and the skill gone with devil mode off: set_mode(FALSE)
\* ran on an active skill
C12_Witness ==
    \E t \in Turns :
        LET r == turns[t]
        IN /\ r.pc = "done" /\ ~r.raised /\ ~r.cleared
           /\ SkillInPrompt(r) = "code-checker"
           /\ history = r.history_at_end /\ Len(history) = 2
           /\ active_skill = None /\ ~devil_mode

\* C13 as claimed: a devil-mode turn that finds a skill active keeps it, uses its
\* content and does not classify, and the classification runs only on the first
\* devil-mode turn after the construction or a set_mode or clear call.
C13_AsClaimed ==
    \A t \in Turns :
        LET r == turns[t]
        IN PromptDone(r) =>
              /\ (r.devil_at_prompt /\ r.skill_before # None) =>
                    (r.detected = "-" /\ SkillInPrompt(r) = r.skill_before.content)
              /\ r.detected # "-" => r.first_devil

\* C13: a devil-mode turn that finds a skill active leaves active_skill as it is,
\* uses that skill's content in the system prompt and does not classify, whatever
\* its own input would classify to; no step other than set_mode and clear takes
\* an active skill away.  The classification runs exactly in the devil-mode turns
\* with a non-empty input that find no skill active: the first devil-mode turn
\* after set_mode or clear when its input is not empty, and every later one as
\* long as no skill became active (an empty input, or a name the registry lacks).
C13_ActiveSkillPersists ==
    [][ /\ \A t \in Turns : BuildsPrompt(t) =>
              LET r == turns'[t]
              IN /\ (devil_mode /\ active_skill # None) =>
                       /\ active_skill' = active_skill
                       /\ r.detected = "-"
                       /\ SkillInPrompt(r) = active_skill.content
                 /\ r.detected # "-" <=>
                       (devil_mode /\ active_skill = None /\ r.user_input # <<>>)
                 /\ (r.first_devil /\ r.user_input # <<>>) => r.detected # "-"
        /\ active_skill # None => active_skill' \in {active_skill, None}
        /\ (active_skill # None /\ active_skill' = None) =>
              (clear \/ \E devil \in BOOLEAN : set_mode(devil)) ]_vars

\* a devil-mode turn found the code-checker skill active and used it, its own
\* input classifying to logic-auditor
C13_Witness ==
    \E t \in Turns :
        LET r == turns[t]
        IN /\ PromptDone(r) /\ r.devil_at_prompt /\ ~r.first_devil
           /\ r.skill_before = Skill("code-checker")
           /\ _detect_skill(r.user_input) = "logic-auditor"
           /\ SkillInPrompt(r) = "code-checker"

\* C14: the classification depends on the input alone.  An input with a code
\* keyword, in any letter case, classifies to code-checker even when it has a
\* document keyword too; one with a document keyword and no code keyword to
\* logic-auditor; any other to general-reviewer.
C14_Classification ==
    \A t \in Turns :
        LET r == turns[t]
            code == \E j \in DOMAIN r.user_input : Lower(r.user_input[j]) \in CodeKeywords
            doc == \E j \in DOMAIN r.user_input : Lower(r.user_input[j]) \in DocKeywords
        IN (PromptDone(r) /\ r.detected # "-") =>
              /\ code => r.detected = "code-checker"
              /\ (doc /\ ~code) => r.detected = "logic-auditor"
              /\ (~doc /\ ~code) => r.detected = "general-reviewer"

\* a classified input with a code keyword in capitals and a document keyword, after
\* an earlier turn of the session
C14_Witness ==
    \E t \in Turns :
        LET r == turns[t]
        IN /\ PromptDone(r) /\ r.detected = "code-checker"
           /\ r.user_input = <<"DEF ", "paper">>
           /\ r.prev_len > 0

\* the References block the claim describes: the heading and the first min(n, 5)
\* of the n collected URLs, numbered from 1, as the last events of the turn, and
\* no reference event when n = 0
ReferencesAtEnd(r) ==
    LET n == Len(r.search_sources)
        m == IF n < 5 THEN n ELSE 5
        L == Len(r.out)
    IN /\ n = 0 => EventsOf(r, {"references", "ref"}) = {}
       /\ n >= 1 =>
             /\ L > m
             /\ r.out[L - m] = Content("references", 0, <<>>)
             /\ \A j \in 1..m : r.out[L - m + j] = Content("ref", j, r.search_sources[j])
             /\ Cardinality(EventsOf(r, {"references", "ref"})) = m + 1

\* C15 as claimed: a turn that began with web search on and whose stream completed
\* ends with the References block of its collected URLs, and has no such block
\* when it collected none.
C15_AsClaimed ==
    \A t \in Turns :
        LET r == turns[t]
        IN (r.pc = "done" /\ ~r.raised /\ r.search_at_start) => ReferencesAtEnd(r)

\* what remains of C15 when no set_search call changed the toggle during the turn
C15_UntoggledReferences ==
    \A t \in Turns :
        LET r == turns[t]
        IN (r.pc = "done" /\ ~r.raised /\ r.search_at_start /\ ~r.toggled) =>
              ReferencesAtEnd(r)

\* C16: every turn that has begun reaches its end, whatever the extraction, the
\* searches and the validations return or throw and whatever the verdicts are.
C16_Terminates ==
    \A t \in Turns : InFlight(t) ~> (turns[t].pc = "done")

\* a turn that ended after three iterations, each with an unsatisfied verdict, the
\* searches of the last one having thrown
C16_Witness ==
    \E t \in Turns :
        LET r == turns[t]
        IN /\ r.pc = "done"
           /\ \A iter \in 1..max_iterations : ValidatedAs(r, iter, "unsat")
           /\ r.done # <<>> /\ \A k \in DOMAIN r.done : r.done[k].threw

\* a turn that ended although its validation call threw
C16_WitnessValidationThrew ==
    \E t \in Turns :
        turns[t].pc = "done" /\ ValidatedAs(turns[t], 1, "throw")

\* C17: every clear call leaves history empty and active_skill None and changes
\* neither devil_mode nor use_web_search nor the registry; a clear call on the state
\* a clear call left changes nothing of the session.
C17_Clear ==
    [][ /\ clear =>
              /\ history' = <<>> /\ active_skill' = None
              /\ UNCHANGED <<devil_mode, use_web_search, skills_metadata>>
        /\ (clear /\ history = <<>> /\ active_skill = None) =>
              UNCHANGED <<history, active_skill, devil_mode, use_web_search,
                          skills_metadata>> ]_vars

\* clear ran during the stream of a turn whose prompt carried the code-checker
\* skill: history is empty and the skill gone, web search is still off
C17_Witness ==
    \E t \in Turns :
        LET r == turns[t]
        IN /\ r.pc = "stream" /\ r.cleared
           /\ SkillInPrompt(r) = "code-checker"
           /\ history = <<>> /\ active_skill = None
           /\ ~use_web_search /\ devil_mode

\* C18: a description longer than 1024 characters is stored as its first 1024
\* characters followed by "...", 1027 characters in all; a description of at most
\* 1024 characters is stored unchanged.
C18_DescriptionTruncated ==
    \A j \in DOMAIN skills_metadata :
        LET stored == skills_metadata[j].description
            desc == skills_metadata[j].content.description
        IN IF Len(desc) > 1024
           THEN /\ Len(stored) = 1027
                /\ SubSeq(stored, 1, 1024) = SubSeq(desc, 1, 1024)
                /\ SubSeq(stored, 1025, 1027) = <<".", ".", ".">>
           ELSE stored = desc

\* a file with a description of 1025 characters has been parsed
C18_Witness ==
    \E j \in DOMAIN skills_metadata :
        /\ Len(skills_metadata[j].content.description) = 1025
        /\ Len(skills_metadata[j].description) = 1027

\* a file with a description of exactly 1024 characters has been parsed
C18_WitnessAtLimit ==
    \E j \in DOMAIN skills_metadata :
        /\ Len(skills_metadata[j].content.description) = 1024
        /\ Len(skills_metadata[j].description) = 1024

\* a step in which the gather of turn t returns and its results are merged
Merges(t) == turns[t].pc = "search" /\ turns'[t].pc = "validate"

\* C19 as claimed: merging the results of an iteration leaves the value of every key
\* the accumulated map already had as it was.
C19_AsClaimed ==
    [][ \A t \in Turns : Merges(t) =>
            \A k \in DictKeys(turns[t].all_results) :
                DictGet(turns'[t].all_results, k) = DictGet(turns[t].all_results, k) ]_vars

\* C19: merging the results of an iteration gives every key searched in it the new
\* result, a key the accumulated map already had keeping its place; the entries
\* of the keys not searched in the iteration are untouched, and the keys not yet
\* present are added.
C19_MergeOverwrites ==
    [][ \A t \in Turns : Merges(t) =>
            LET old == turns[t].all_results
                new == turns'[t].all_results
                results == turns'[t].results
            IN /\ \A k \in DictKeys(results) : DictGet(new, k) = DictGet(results, k)
               /\ \A k \in DictKeys(old) \ DictKeys(results) :
                     DictGet(new, k) = DictGet(old, k)
               /\ Len(new) >= Len(old)
               /\ \A j \in DOMAIN old : new[j].q = old[j].q
               /\ DictKeys(new) = DictKeys(old) \cup DictKeys(results)
               /\ Len(new) = Cardinality(DictKeys(new)) ]_vars

\* the second iteration searched the one key of the first again: the map has one
\* entry, with the result of the second iteration, a failed search
C19_Witness ==
    \E t \in Turns :
        LET r == turns[t]
        IN /\ r.pc = "validate" /\ r.i = 1
           /\ Len(r.all_results) = 1
           /\ r.all_results = r.results
           /\ r.done[1].threw

\* C20 as claimed: a turn that began with web search on has emitted the stage event
\* of the generation start when its stream is opened, before every fragment.
C20_AsClaimed ==
    \A t \in Turns :
        LET r == turns[t]
        IN (r.search_at_start /\ PromptDone(r)) =>
              \E j \in DOMAIN r.out :
                  /\ r.out[j] = Stage("generating")
                  /\ \A k \in EventsOf(r, {"fragment"}) : j < k

\* what remains of C20 for the turns whose result map is not empty
C20_GeneratingWithResults ==
    \A t \in Turns :
        LET r == turns[t]
        IN (r.search_at_start /\ PromptDone(r) /\ r.all_results # <<>>) =>
              \E j \in DOMAIN r.out :
                  /\ r.out[j] = Stage("generating")
                  /\ \A k \in EventsOf(r, {"fragment"}) : j < k

\* C21 as claimed: a turn whose stream completed ends with the offline advisory if
\* and only if web search was off when the turn began, whatever set_search calls
\* arrived while it was in flight.
C21_AsClaimed ==
    \A t \in Turns :
        LET r == turns[t]
        IN (r.pc = "done" /\ ~r.raised) =>
              (EventsOf(r, {"advisory"}) # {} <=> ~r.search_at_start)

\* what remains of C21 when no set_search call changed the toggle during the turn
C21_UntoggledAdvisory ==
    \A t \in Turns :
        LET r == turns[t]
        IN (r.pc = "done" /\ ~r.raised /\ ~r.toggled) =>
              (EventsOf(r, {"advisory"}) # {} <=> ~r.search_at_start)

\* the place of the first occurrence of query q in the list queries
FirstIndex(queries, q) == CHOOSE k \in DOMAIN queries :
                              queries[k] = q /\ \A j \in 1..(k - 1) : queries[j] # q

\* the items of d are in the order in which their keys first occur in queries
InQueryOrder(d, queries) ==
    \A a, b \in DOMAIN d :
        a < b => /\ d[a].q \in { queries[k] : k \in DOMAIN queries }
                 /\ d[b].q \in { queries[k] : k \in DOMAIN queries }
                 /\ FirstIndex(queries, d[a].q) < FirstIndex(queries, d[b].q)

\* C22: the results of an iteration are merged, and its validation starts, only
\* when every search of the iteration has an outcome; each query has the result of
\* its own search, and the entries the iteration adds to the accumulated map are
\* in the order of the query list, whatever the order of completion.
C22_JoinAllInOrder ==
    [][ \A t \in Turns : Merges(t) =>
            LET r == turns[t]
                old == r.all_results
                new == turns'[t].all_results
                added == SubSeq(new, Len(old) + 1, Len(new))
            IN /\ Len(r.done) = Len(r.queries)
               /\ \A k \in DOMAIN r.queries : r.done[k].fin
               /\ { r.done[k].rank : k \in DOMAIN r.done } = 1..Len(r.queries)
               /\ InQueryOrder(turns'[t].results, r.queries)
               /\ InQueryOrder(added, r.queries)
               /\ \A k \in DOMAIN r.queries :
                     LastOccurrence(r.queries, k) => DictGet(new, r.queries[k]) = r.done[k].r ]_vars

\* the second search of a gather completed first, with a result other than that of
\* the first, and the map has the two entries in the order of the queries
C22_Witness ==
    \E t \in Turns :
        LET r == turns[t]
        IN /\ r.pc = "validate"
           /\ Len(r.queries) = 2 /\ r.queries[1] # r.queries[2]
           /\ r.done[2].rank = 1 /\ r.done[1].rank = 2
           /\ r.done[1].r # r.done[2].r
           /\ Len(r.all_results) = 2
           /\ r.all_results[1] = [q |-> r.queries[1], r |-> r.done[1].r]
           /\ r.all_results[2] = [q |-> r.queries[2], r |-> r.done[2].r]

\* the non-empty chunks of a sequence of chunks, in order
RECURSIVE NonEmpty(_)
NonEmpty(chunks) ==
    IF chunks = <<>> THEN <<>>
    ELSE (IF Head(chunks) # <<>> THEN << Head(chunks) >> ELSE <<>>) \o NonEmpty(Tail(chunks))

\* the concatenation of a sequence of texts
RECURSIVE Concat(_)
Concat(texts) == IF texts = <<>> THEN <<>> ELSE Head(texts) \o Concat(Tail(texts))

\* the texts of the fragment events of a sequence of events, in order
RECURSIVE FragmentTexts(_)
FragmentTexts(out) ==
    IF out = <<>> THEN <<>>
    ELSE (IF Head(out).tag = "fragment" THEN << Head(out).text >> ELSE <<>>)
         \o FragmentTexts(Tail(out))

\* C23: the fragment events of a turn are the non-empty chunks its stream
\* delivered, in order, so that no empty fragment is emitted; when the stream
\* completes, the assistant message appended to history is the concatenation of
\* those chunks, without the stage events, the advisory and the References block.
C23_AssistantMessage ==
    \A t \in Turns :
        LET r == turns[t]
        IN PromptDone(r) =>
              /\ FragmentTexts(r.out) = NonEmpty(r.received)
              /\ \A j \in EventsOf(r, {"fragment"}) : r.out[j].text # <<>>
              /\ (r.pc = "done" /\ ~r.raised) =>
                    /\ r.history_at_end # <<>>
                    /\ r.history_at_end[Len(r.history_at_end)] =
                          AIMessage(Concat(NonEmpty(r.received)))

\* a completed turn whose stream delivered an empty chunk and then b, and which
\* ended with the References block: the assistant message is "b"
C23_Witness ==
    \E t \in Turns :
        LET r == turns[t]
        IN /\ r.pc = "done" /\ ~r.raised
           /\ r.received = << <<>>, <<"b">> >>
           /\ EventsOf(r, {"references"}) # {}
           /\ r.history_at_end = << HumanMessage(r.user_input), AIMessage(<<"b">>) >>

\* C24 as claimed: every query list handed to multi_search has at least one and at
\* most three queries.
C24_AsClaimed ==
    \A t \in Turns :
        turns[t].pc = "search" =>
            (Len(turns[t].queries) >= 1 /\ Len(turns[t].queries) <= 3)

\* what remains of C24: every query list handed to multi_search has a query
C24_AtLeastOneQuery ==
    \A t \in Turns : turns[t].pc = "search" => Len(turns[t].queries) >= 1

\* C25: whenever a skill is active, devil mode is on and the skill is a record of
\* the registry with one of the three names the classification returns; no step
\* taken in normal mode changes active_skill, and no step changes the registry.
C25_ActiveSkillInvariant ==
    /\ [](active_skill # None =>
             /\ devil_mode
             /\ \E j \in DOMAIN skills_metadata : skills_metadata[j] = active_skill
             /\ active_skill.name \in SkillNames)
    /\ [][ /\ ~devil_mode => active_skill' = active_skill
           /\ skills_metadata' = skills_metadata ]_vars

\* a skill is active in the stream of a later turn of the session, the first to
\* build a devil-mode prompt since a set_mode call
C25_Witness ==
    \E t \in Turns :
        LET r == turns[t]
        IN /\ r.pc = "stream" /\ r.prev_len > 0
           /\ active_skill = Skill("code-checker") /\ devil_mode
           /\ r.first_devil

\* the turn has left the retrieval loop
LoopLeft(r) == r.pc \in {"prompt", "stream", "done"}

\* event j of the turn is followed by the stage event of a search dispatch
SearchFollows(r, j) ==
    \E k \in DOMAIN r.out : k > j /\ r.out[k] = Stage("searching")

\* C26 as claimed: every "Refining search" event of a turn is followed by the stage
\* event of another search dispatch of the turn.
C26_AsClaimed ==
    \A t \in Turns :
        LET r == turns[t]
        IN LoopLeft(r) =>
              \A j \in EventsOf(r, {"refining"}) : SearchFollows(r, j)

\* what remains of C26: a "Refining search" event is followed by a search dispatch
\* unless it was emitted in the last iteration the loop allows
C26_RefiningBeforeLastIteration ==
    \A t \in Turns :
        LET r == turns[t]
        IN LoopLeft(r) =>
              \A j \in EventsOf(r, {"refining"}) :
                  \/ SearchFollows(r, j)
                  \/ Cardinality({ k \in EventsOf(r, {"searching"}) : k < j }) = max_iterations

\* the stage events of a sequence of events
StageEvents(out) == { j \in DOMAIN out : out[j].type = "stage" }

\* C27: in the output of a turn every stage event precedes every content event
\* (fragment, advisory, References line, error fragment), and no stage event is
\* emitted once the model stream has been opened.
C27_StagesFirst ==
    /\ [](\A t \in Turns :
             \A j, k \in DOMAIN turns[t].out :
                 (turns[t].out[j].type = "stage" /\ turns[t].out[k].type = "content")
                     => j < k)
    /\ [][ \A t \in Turns :
             (PromptDone(turns[t]) /\ PromptDone(turns'[t])) =>
                 StageEvents(turns'[t].out) = StageEvents(turns[t].out) ]_vars

\* a completed turn with the stage events of a search, a fragment and the
\* References block
C27_Witness ==
    \E t \in Turns :
        LET r == turns[t]
        IN /\ r.pc = "done" /\ ~r.raised
           /\ EventsOf(r, {"found"}) # {} /\ EventsOf(r, {"generating"}) # {}
           /\ EventsOf(r, {"fragment"}) # {} /\ EventsOf(r, {"ref"}) # {}

\* a turn whose stream raised after a fragment
C27_WitnessError ==
    \E t \in Turns :
        LET r == turns[t]
        IN /\ r.pc = "done" /\ r.raised
           /\ EventsOf(r, {"fragment"}) # {} /\ EventsOf(r, {"error"}) # {}
           /\ StageEvents(r.out) # {}

\* the terminal events of a response stream
Terminals(sse) == { j \in DOMAIN sse : sse[j].event \in {"done", "error"} }

\* C28: the response stream of a turn in flight has no terminal event; that of a
\* turn that ended has exactly one, done or error, as its last event, after a
\* content event for every chunk of the turn in order.  When the model stream
\* raised, the last two events are the content event of the error fragment and
\* the done event.
C28_ResponseStream ==
    \A t \in Turns :
        LET r == turns[t]
            sse == gen(r)
            n == Len(sse)
        IN /\ InFlight(t) => Terminals(sse) = {}
           /\ r.pc = "done" =>
                 /\ n = Len(r.out) + 1
                 /\ Terminals(sse) = {n}
                 /\ \A j \in 1..(n - 1) : sse[j] = SSE("content", r.out[j])
                 /\ r.raised =>
                       /\ sse[n].event = "done"
                       /\ n >= 2
                       /\ sse[n - 1] = SSE("content", Content("error", 0, r.reason))

\* the response of a turn whose model stream raised after a fragment: the stage
\* events, the fragment, the error fragment and the done event
C28_Witness ==
    \E t \in Turns :
        LET r == turns[t]
            sse == gen(r)
        IN /\ r.pc = "done" /\ r.raised /\ r.full # <<>>
           /\ sse[Len(sse)] = SSE("done", <<>>)
           /\ sse[Len(sse) - 1].data.tag = "error"
           /\ sse[Len(sse) - 2].data.tag = "fragment"

====
